---- MODULE Spec2Model ----
(***************************************************************************)
(* Client-side session / token lifecycle of the storefront frontend:       *)
(*   - Token Store        (services/api.ts: setTokens, clearTokens, ...)    *)
(*   - Request Pipeline   (services/api.ts: axios interceptors)             *)
(*   - Auth service       (services/auth.ts)                                *)
(*   - Auth Facade / Session Bootstrapper (contexts/AuthContext.tsx)        *)
(*   - Navbar.handleLogout (components/common)                              *)
(* The server is the environment: every response is a free choice.         *)
(* One step of the model is one run-to-completion turn of the event loop:   *)
(* the code between two network suspension points.                          *)
(***************************************************************************)
EXTENDS Integers, FiniteSets, Sequences, TLC

\* ------------------------------------------------------------------ bounds
MaxOps     == 1   \* user-initiated operations that can be in flight together
MaxAccess  == 2   \* distinct access-token values the server hands out
MaxRefresh == 2   \* distinct refresh-token values the server hands out
MaxUsers   == 1   \* distinct user profiles
CountCap   == 3   \* the per-request send / refresh counters saturate here
MaxMutations == 2 \* cart / order mutations that can be pending together

\* ------------------------------------------------------------------ values
Null          == <<"null", 0>>
AccessTokens  == {<<"A", n>> : n \in 1..MaxAccess}
RefreshTokens == {<<"R", n>> : n \in 1..MaxRefresh}
Users         == {<<"U", n>> : n \in 1..MaxUsers}

\* HTTP outcomes; NoResponse is a transport failure (error.response undefined)
NoResponse    == 0
OK            == 200
Unauthorized  == 401
OtherFailures == {NoResponse, 403}
FailStatuses  == {Unauthorized} \cup OtherFailures
Statuses      == {OK} \cup FailStatuses
NoStatus      == 0 - 1   \* no response has been received yet

BootSlot  == 0
UserSlots == 1..MaxOps
Slots     == {BootSlot} \cup UserSlots

Inc(n) == IF n < CountCap THEN n + 1 ELSE n

VARIABLES
  accessToken,   \* api.ts: let accessToken (memory only)
  refreshToken,  \* api.ts: let refreshToken (memory copy)
  storage,       \* localStorage['refreshToken']
  user,          \* AuthProvider: useState<User | null>
  isLoading,     \* AuthProvider: useState(true)
  location,      \* the user agent's current location
  unloading,     \* window.location.href was assigned: the page is going away
  ops,           \* the asynchronous calls in flight, one record per slot
  invalidated,   \* QueryClient: the cached queries marked invalidated
  mutations      \* useMutation: the state of each cart / order mutation

vars ==
  <<accessToken, refreshToken, storage, user, isLoading, location, unloading,
    ops, invalidated, mutations>>

\* the query cache and the mutation hooks are not touched by the session code
cacheVars == <<invalidated, mutations>>

\* --------------------------------------------------------------- token store
Store(a, r, s) == [accessToken |-> a, refreshToken |-> r, storage |-> s]

CurStore == Store(accessToken, refreshToken, storage)

\* (mutation) the refresh token is not persisted
setTokensMemoryOnly(access, refresh) == Store(access, refresh, storage)

\* (mutation) the access token is persisted next to the refresh token
setTokensPersistsAccess(access, refresh) == Store(access, refresh, access)

setTokens(access, refresh) == Store(access, refresh, refresh)

\* (mutation) the durable copy is not removed
clearTokensKeepsStorage == Store(Null, Null, storage)

\* (mutation) the in-memory refresh token is not nulled
clearTokensKeepsMemory == Store(Null, refreshToken, Null)

clearTokens == Store(Null, Null, Null)

loadStoredRefreshToken(st) == Store(st.accessToken, st.storage, st.storage)

getAccessToken == accessToken

\* ---------------------------------------------------------- request pipeline
NoHeader  == <<"none", Null>>
Bearer(t) == <<"Bearer", t>>

\* (mutation) a request interceptor that never attaches the credential
RequestInterceptorSkipsToken(header, tok) == header

\* request interceptor: attach the held access token, else leave the config
RequestInterceptor(header, tok) ==
  IF tok # Null THEN Bearer(tok) ELSE header

\* (mutation) the _retry flag is not consulted
ShouldRefreshIgnoringRetry(status, rt, retried) ==
  status = Unauthorized /\ rt # Null

\* (mutation) the held refresh token is not consulted
ShouldRefreshWithoutToken(status, rt, retried) ==
  status = Unauthorized /\ ~retried

\* (mutation) every failure, not only 401, is taken for an expired session
ShouldRefreshOnAnyFailure(status, rt, retried) ==
  status # OK /\ rt # Null /\ ~retried

\* (mutation) one flag shared by all requests instead of one per request
ShouldRefreshGlobalFlag(status, rt, retried) ==
  status = Unauthorized /\ rt # Null /\ \A k \in Slots : ~ops[k].retry

\* (mutation) every 401 is refreshed and retried, marked or not
ShouldRefreshEvery401(status, rt, retried) == status = Unauthorized

\* response interceptor: the condition under which a failure is refreshed
ShouldRefresh(status, rt, retried) ==
  status = Unauthorized /\ rt # Null /\ ~retried

\* (mutation) the request is not marked as retried
MarkRetriedForgotten(o) == o

\* originalRequest._retry = true
MarkRetried(o) == [o EXCEPT !.retry = TRUE]

\* (mutation) the new access token is not stored
StoreRefreshedAccessDropped(st, access) == st

\* refresh success: accessToken = access (the refresh token is not written)
StoreRefreshedAccess(st, access) ==
  Store(access, st.refreshToken, st.storage)

\* refresh success: originalRequest.headers.Authorization = `Bearer ${access}`
RetryHeader(access) == Bearer(access)

\* (mutation) the refresh exchange's own failure is propagated
RefreshFailureErrorOfRefresh(original, refreshErr) == refreshErr

\* refresh failure: return Promise.reject(error), error being the original one
RefreshFailureError(original, refreshErr) == original

\* refresh failure: window.location.href = '/login'
LoginEntry == "/login"
HomePage   == "/"
AnyPage    == "/page"
Locations  == {LoginEntry, HomePage, AnyPage}

\* ------------------------------------------------------------------- ops
\* response.data of the endpoints the facade reads
Data(a, r, u) == [access |-> a, refresh |-> r, user |-> u]
NoData == Data(Null, Null, Null)

IdleOp ==
  [op |-> "none", pc |-> "idle", stage |-> "main", retry |-> FALSE,
   header |-> NoHeader, held |-> Null, sends |-> 0, refreshes |-> 0,
   storedRefresh |-> Null, refreshed |-> "no", issued |-> Null,
   rt401 |-> FALSE, status |-> NoStatus, out |-> "pending",
   data |-> NoData]

\* api.<verb>(...): a fresh request config passes the request interceptor
\* and goes on the wire
SendNew(kind, stage, stored) ==
  [IdleOp EXCEPT !.op = kind, !.pc = "wait", !.stage = stage,
                 !.header = RequestInterceptor(NoHeader, accessToken),
                 !.held = accessToken, !.sends = 1,
                 !.storedRefresh = stored]

SendNewWith(kind, stage, stored, tok) ==
  [IdleOp EXCEPT !.op = kind, !.pc = "wait", !.stage = stage,
                 !.header = RequestInterceptor(NoHeader, tok),
                 !.held = tok, !.sends = 1,
                 !.storedRefresh = stored]

Free(i) == ops[i].pc \in {"idle", "done"}

\* What one turn of the event loop leaves behind: the token store, the
\* facade's state, the location and the operation's own record.
Result(tok, usr, ld, loc, o) ==
  [tok |-> tok, user |-> usr, loading |-> ld, loc |-> loc, op |-> o]

Done(o, out) == [o EXCEPT !.pc = "done", !.out = out]

Outcome(status) == IF status = OK THEN "resolved" ELSE "rejected"

\* a plain protected call (cart, orders, profile update, ...): the caller
\* gets the pipeline's result
RequestContinue(o, d, tok, usr, ld, loc) ==
  Result(tok, usr, ld, loc, Done(o, Outcome(o.status)))

\* authService.login / register, then AuthProvider.login / register
LoginContinue(o, d, tok, usr, ld, loc) ==
  IF o.status = OK
  THEN Result(setTokens(d.access, d.refresh), d.user, ld, loc,
              Done([o EXCEPT !.data = d], "resolved"))
  ELSE Result(tok, usr, ld, loc, Done(o, "rejected"))

\* authService.logout: try { await api.post } finally { clearTokens() }
LogoutFinally(tok) == clearTokens

\* AuthProvider.logout after the await, then Navbar.handleLogout:
\* setUser(null); navigate('/') run only when the await did not throw
LogoutContinue(o, d, tok, usr, ld, loc) ==
  IF o.status = OK
  THEN Result(LogoutFinally(tok), Null, ld, HomePage, Done(o, "resolved"))
  ELSE Result(LogoutFinally(tok), usr, ld, loc, Done(o, "rejected"))

\* (mutation) a failed profile fetch is treated as the end of the session
RefreshUserContinueEndsSession(o, d, tok, usr, ld, loc) ==
  IF o.status = OK
  THEN Result(tok, d.user, ld, loc, Done([o EXCEPT !.data = d], "resolved"))
  ELSE Result(tok, Null, ld, loc, Done(o, "rejected"))

\* AuthProvider.refreshUser
RefreshUserContinue(o, d, tok, usr, ld, loc) ==
  IF o.status = OK
  THEN Result(tok, d.user, ld, loc, Done([o EXCEPT !.data = d], "resolved"))
  ELSE Result(tok, usr, ld, loc, Done(o, "rejected"))

\* (mutation) the restore's catch block leaves the tokens in place
RestoreCatchKeepsTokens(tok) == tok

\* authService.refreshSession: catch { clearTokens(); return null }
RestoreCatch(tok) == clearTokens

\* (mutation) the restore goes to the network without a stored token
RestoreSkipsNever(stored) == FALSE

\* authService.refreshSession: if (!storedRefresh) return null
RestoreSkips(stored) == stored = Null

\* (mutation) the fetched profile is not handed to setUser
RestoredUserLost(d) == Null

\* return await this.getProfile(); setUser(restoredUser)
RestoredUser(d) == d.user

\* (mutation) initAuth without its finally block: a failed restore leaves
\* the loading flag as it was
InitAuthContinueNoFinally(o, d, tok, usr, ld, loc) ==
  IF o.status # OK
  THEN Result(RestoreCatch(tok), Null, ld, loc, Done(o, "resolved"))
  ELSE IF o.stage = "refresh"
  THEN Result(setTokens(d.access, o.storedRefresh), usr, ld, loc,
              [SendNewWith("initAuth", "profile", o.storedRefresh, d.access)
                 EXCEPT !.data = d])
  ELSE Result(tok, RestoredUser(d), FALSE, loc,
              Done([o EXCEPT !.data = Data(o.data.access, Null, d.user)],
                   "resolved"))

\* authService.refreshSession + AuthProvider.initAuth
InitAuthContinue(o, d, tok, usr, ld, loc) ==
  IF o.status # OK
  THEN \* catch { clearTokens(); return null } -> setUser(null), loading off
       Result(RestoreCatch(tok), Null, FALSE, loc, Done(o, "resolved"))
  ELSE IF o.stage = "refresh"
  THEN \* setTokens(response.data.access, storedRefresh); this.getProfile()
       Result(setTokens(d.access, o.storedRefresh), usr, ld, loc,
              [SendNewWith("initAuth", "profile", o.storedRefresh, d.access)
                 EXCEPT !.data = d])
  ELSE \* setUser(restoredUser); finally setIsLoading(false)
       Result(tok, RestoredUser(d), FALSE, loc,
              Done([o EXCEPT !.data = Data(o.data.access, Null, d.user)],
                   "resolved"))

Continue(o, d, tok, usr, ld, loc) ==
  CASE o.op = "request"     -> RequestContinue(o, d, tok, usr, ld, loc)
    [] o.op = "login"       -> LoginContinue(o, d, tok, usr, ld, loc)
    [] o.op = "register"    -> LoginContinue(o, d, tok, usr, ld, loc)
    [] o.op = "logout"      -> LogoutContinue(o, d, tok, usr, ld, loc)
    [] o.op = "refreshUser" -> RefreshUserContinue(o, d, tok, usr, ld, loc)
    [] o.op = "initAuth"    -> InitAuthContinue(o, d, tok, usr, ld, loc)

Commit(i, res) ==
  /\ accessToken' = res.tok.accessToken
  /\ refreshToken' = res.tok.refreshToken
  /\ storage' = res.tok.storage
  /\ user' = res.user
  /\ isLoading' = res.loading
  /\ location' = res.loc
  /\ ops' = [ops EXCEPT ![i] = res.op]
  /\ UNCHANGED cacheVars

\* a turn that does not assign window.location
Apply(i, res) == Commit(i, res) /\ UNCHANGED unloading

\* a turn that assigned window.location.href: the document will be replaced
ApplyAndUnload(i, res) == Commit(i, res) /\ unloading' = TRUE

\* ------------------------------------------------------------ operations
\* AuthProvider mount effect: initAuth -> authService.refreshSession
BootStart ==
  /\ ops[BootSlot].pc = "idle"
  /\ LET tok == loadStoredRefreshToken(CurStore)
     IN IF RestoreSkips(tok.refreshToken)
        THEN \* return null: no network call
             Apply(BootSlot,
                   Result(tok, Null, FALSE, location,
                          Done([IdleOp EXCEPT !.op = "initAuth"], "resolved")))
        ELSE Apply(BootSlot,
                   Result(tok, user, isLoading, location,
                          SendNew("initAuth", "refresh", tok.refreshToken)))

StartLogin(i) ==
  /\ Free(i)
  /\ ~unloading
  /\ Apply(i, Result(CurStore, user, isLoading, location,
                     SendNew("login", "main", Null)))

StartRegister(i) ==
  /\ Free(i)
  /\ ~unloading
  /\ Apply(i, Result(CurStore, user, isLoading, location,
                     SendNew("register", "main", Null)))

StartRefreshUser(i) ==
  /\ Free(i)
  /\ ~unloading
  /\ Apply(i, Result(CurStore, user, isLoading, location,
                     SendNew("refreshUser", "main", Null)))

StartRequest(i) ==
  /\ Free(i)
  /\ ~unloading
  /\ Apply(i, Result(CurStore, user, isLoading, location,
                     SendNew("request", "main", Null)))

\* Navbar.handleLogout -> AuthProvider.logout
StartLogout(i) ==
  /\ Free(i)
  /\ ~unloading
  /\ LET storedRefresh == storage
     IN IF storedRefresh # Null
        THEN Apply(i, Result(CurStore, user, isLoading, location,
                             SendNew("logout", "main", storedRefresh)))
        ELSE \* no authService.logout: setUser(null); navigate('/')
             Apply(i, Result(CurStore, Null, isLoading, HomePage,
                             Done([IdleOp EXCEPT !.op = "logout"],
                                  "resolved")))

\* the server answers a request that went through the api instance
HandleResponse(i, st, d) ==
  LET o == [ops[i] EXCEPT
              !.status = st,
              !.rt401 = @ \/ (st = Unauthorized /\ refreshToken # Null
                                /\ ops[i].sends = 1)]
  IN IF st # OK /\ ShouldRefresh(st, refreshToken, o.retry)
     THEN \* axios.post('/api/auth/refresh/', { refresh: refreshToken })
          Apply(i, Result(CurStore, user, isLoading, location,
                          [MarkRetried(o) EXCEPT !.pc = "refreshing",
                                                 !.refreshes = Inc(@)]))
     ELSE Apply(i, Continue(o, d, CurStore, user, isLoading, location))

\* what a 200 response to the operation's request can carry
Payloads(o) ==
  CASE o.op \in {"login", "register"} ->
         {Data(a, r, u) : a \in AccessTokens, r \in RefreshTokens, u \in Users}
    [] o.op = "initAuth" /\ o.stage = "refresh" ->
         {Data(a, Null, Null) : a \in AccessTokens}
    [] o.op = "refreshUser" \/ (o.op = "initAuth" /\ o.stage = "profile") ->
         {Data(Null, Null, u) : u \in Users}
    [] OTHER -> {NoData}

\* GET /auth/profile requires a bearer credential: the server does not
\* answer 200 to a profile request that carries none
RequiresBearer(o) ==
  o.op = "refreshUser" \/ (o.op = "initAuth" /\ o.stage = "profile")

ServerMayAccept(o) == RequiresBearer(o) => o.header # NoHeader

Respond(i) ==
  /\ ops[i].pc = "wait"
  /\ \/ /\ ServerMayAccept(ops[i])
        /\ \E d \in Payloads(ops[i]) : HandleResponse(i, OK, d)
     \/ \E st \in FailStatuses : HandleResponse(i, st, NoData)

\* the server answers the interceptor's refresh exchange
HandleRefresh(i, st, access) ==
  LET o == ops[i]
  IN IF st = OK
     THEN LET tok == StoreRefreshedAccess(CurStore, access)
          IN Apply(i, Result(tok, user, isLoading, location,
               [o EXCEPT !.refreshed = "ok", !.issued = access,
                         !.header = RequestInterceptor(RetryHeader(access),
                                                       tok.accessToken),
                         !.held = tok.accessToken,
                         !.sends = Inc(@), !.pc = "wait"]))
     ELSE ApplyAndUnload(i, Continue(
               [o EXCEPT !.refreshed = "fail",
                         !.status = RefreshFailureError(o.status, st)],
               NoData, clearTokens, user, isLoading, LoginEntry))

RefreshRespond(i) ==
  /\ ops[i].pc = "refreshing"
  /\ \/ \E a \in AccessTokens : HandleRefresh(i, OK, a)
     \/ \E st \in FailStatuses : HandleRefresh(i, st, Null)

\* the page is loaded again: memory is lost, the durable slot survives
Reload ==
  /\ accessToken' = Null
  /\ refreshToken' = Null
  /\ user' = Null
  /\ isLoading' = TRUE
  /\ unloading' = FALSE
  /\ ops' = [i \in Slots |-> IdleOp]
  /\ UNCHANGED <<storage, location>>
  /\ UNCHANGED cacheVars

\* ------------------------------------------------------------ route guard
Spinner        == [kind |-> "spinner", to |-> "", from |-> ""]
Children       == [kind |-> "children", to |-> "", from |-> ""]
Navigate(t, f) == [kind |-> "navigate", to |-> t, from |-> f]

\* (mutation) a guard that does not wait for the session restore
ProtectedRouteIgnoresLoading(ld, auth, loc) ==
  IF ~auth THEN Navigate(LoginEntry, loc) ELSE Children

\* ProtectedRoute: what the guard renders for the context's values
ProtectedRoute(ld, auth, loc) ==
  IF ld THEN Spinner
  ELSE IF ~auth THEN Navigate(LoginEntry, loc)
  ELSE Children

isAuthenticated == user # Null

\* pages wrapped in <ProtectedRoute>
Protected(loc) == loc = AnyPage

\* <Navigate to="/login" state={{ from: location }} replace /> takes effect
GuardRedirect ==
  /\ ~unloading
  /\ Protected(location)
  /\ LET r == ProtectedRoute(isLoading, isAuthenticated, location)
     IN /\ r.kind = "navigate"
        /\ location' = r.to
  /\ UNCHANGED <<accessToken, refreshToken, storage, user, isLoading,
                 unloading, ops>>
  /\ UNCHANGED cacheVars

\* ------------------------------------------- query cache, mutation hooks
\* query key factories
cartKeysAll      == <<"cart">>
cartKeysDetail   == cartKeysAll \o <<"detail">>
cartKeysSummary  == cartKeysAll \o <<"summary">>
orderKeysAll     == <<"orders">>
orderKeysLists   == orderKeysAll \o <<"list">>
orderKeysDetail  == orderKeysAll \o <<"detail", "id">>
productKeysLists == <<"products", "list">>

\* the queries the hooks register
QueryKeys ==
  {cartKeysDetail, cartKeysSummary, orderKeysLists, orderKeysDetail,
   productKeysLists}

CartQueries  == {cartKeysDetail, cartKeysSummary}
OrderQueries == {orderKeysLists, orderKeysDetail}

CartMutations == {"addToCart", "updateCartItem", "removeCartItem", "clearCart"}
MutationKinds == CartMutations \cup {"createOrder"}
MutationSlots == 1..MaxMutations

IdleMutation == [kind |-> "none", pc |-> "idle"]

\* a query key matches a filter key that is a prefix of it
IsPrefix(p, k) == Len(p) <= Len(k) /\ SubSeq(k, 1, Len(p)) = p

\* queryClient.invalidateQueries({ queryKey })
invalidateQueries(inv, queryKey) ==
  [k \in QueryKeys |-> inv[k] \/ IsPrefix(queryKey, k)]

\* (mutation) checkout refreshes the order list and forgets the cart
onSuccessForgetsCart(kind, inv) ==
  IF kind = "createOrder"
  THEN invalidateQueries(inv, orderKeysAll)
  ELSE invalidateQueries(inv, cartKeysAll)

\* the onSuccess callback of each mutation hook
onSuccess(kind, inv) ==
  IF kind = "createOrder"
  THEN invalidateQueries(invalidateQueries(inv, orderKeysAll), cartKeysAll)
  ELSE invalidateQueries(inv, cartKeysAll)

\* mutation.mutate(...): mutationFn is called
Mutate(m, kind) ==
  /\ mutations[m].pc # "pending"
  /\ mutations' = [mutations EXCEPT ![m] = [kind |-> kind, pc |-> "pending"]]
  /\ UNCHANGED <<accessToken, refreshToken, storage, user, isLoading,
                 location, unloading, ops, invalidated>>

\* mutationFn's promise settles: onSuccess runs only when it resolved
MutationSettles(m, resolved) ==
  /\ mutations[m].pc = "pending"
  /\ mutations' = [mutations EXCEPT
                     ![m].pc = IF resolved THEN "success" ELSE "error"]
  /\ invalidated' = IF resolved
                    THEN onSuccess(mutations[m].kind, invalidated)
                    ELSE invalidated
  /\ UNCHANGED <<accessToken, refreshToken, storage, user, isLoading,
                 location, unloading, ops>>

\* an invalidated query is fetched again and becomes fresh
Refetch(k) ==
  /\ invalidated[k]
  /\ invalidated' = [invalidated EXCEPT ![k] = FALSE]
  /\ UNCHANGED <<accessToken, refreshToken, storage, user, isLoading,
                 location, unloading, ops, mutations>>

Init ==
  /\ invalidated = [k \in QueryKeys |-> FALSE]
  /\ mutations = [m \in MutationSlots |-> IdleMutation]
  /\ accessToken = Null
  /\ refreshToken = Null
  /\ storage \in RefreshTokens \cup {Null}
  /\ user = Null
  /\ isLoading = TRUE
  /\ location \in Locations
  /\ unloading = FALSE
  /\ ops = [i \in Slots |-> IdleOp]

Next ==
  \/ BootStart
  \/ \E i \in UserSlots : StartLogin(i)
  \/ \E i \in UserSlots : StartRegister(i)
  \/ \E i \in UserSlots : StartLogout(i)
  \/ \E i \in UserSlots : StartRefreshUser(i)
  \/ \E i \in UserSlots : StartRequest(i)
  \/ \E i \in Slots : Respond(i)
  \/ \E i \in Slots : RefreshRespond(i)
  \/ Reload
  \/ GuardRedirect

Spec == Init /\ [][Next]_vars

\* Every network call eventually returns: a request on the wire is answered,
\* and so is a refresh exchange; the mount effect of AuthProvider always runs.
NetworkReturns ==
  /\ WF_vars(BootStart)
  /\ \A i \in Slots : WF_vars(Respond(i))
  /\ \A i \in Slots : WF_vars(RefreshRespond(i))

LiveSpec == Spec /\ NetworkReturns

\* the mutation hooks over the query cache; the outcome of mutationFn (a
\* call through the request pipeline) is a free choice
CacheNext ==
  \/ \E m \in MutationSlots : \E kind \in MutationKinds : Mutate(m, kind)
  \/ \E m \in MutationSlots : \E resolved \in BOOLEAN :
       MutationSettles(m, resolved)
  \/ \E k \in QueryKeys : Refetch(k)

CacheSpec == Init /\ [][CacheNext]_vars
\* ======================================================== claims C1 .. C10
\* a logout() call settles in this step (with or without a remote call)
LogoutFinishes(i) ==
  /\ ops'[i].op = "logout"
  /\ ops'[i].pc = "done"
  /\ ops'[i] # ops[i]

\* the interceptor's refresh exchange of slot i is answered in this step
RefreshSucceeds(i) ==
  ops[i].pc = "refreshing" /\ ops'[i].refreshed = "ok"

RefreshFails(i) ==
  ops[i].pc = "refreshing" /\ ops'[i].refreshed = "fail"

\* the session restore's refresh exchange is answered with 200 in this step
RestoreRefreshSucceeds ==
  /\ ops[BootSlot].op = "initAuth"
  /\ ops[BootSlot].pc = "wait"
  /\ ops[BootSlot].stage = "refresh"
  /\ ops'[BootSlot].stage = "profile"

\* slot i's request is answered 401 in this step while no refresh token is held
Gets401WithoutRefreshToken(i) ==
  /\ ops[i].pc = "wait"
  /\ refreshToken = Null
  /\ ops'[i] # ops[i]
  /\ ops'[i].op = ops[i].op
  /\ ops'[i].status = Unauthorized

\* C1: whenever a logout() call finishes, under every interleaving, the
\* access token is absent and the durable slot holds no refresh token.
C1_LogoutClearsTokens ==
  [][\A i \in UserSlots :
       LogoutFinishes(i) => getAccessToken' = Null /\ storage' = Null]_vars

\* C2: whenever a logout() call finishes, the held user profile is null,
\* whether the remote logout call succeeded or failed.
C2_LogoutClearsUser ==
  [][\A i \in UserSlots : LogoutFinishes(i) => user' = Null]_vars

\* C3: a finished logout() never surfaces a failure to its caller (so the
\* navigation that follows it in Navbar.handleLogout is not skipped).
C3_LogoutNeverRejects ==
  \A i \in UserSlots :
    ops[i].op = "logout" /\ ops[i].pc = "done" => ops[i].out = "resolved"

\* C4: a request whose first answer is 401 while a refresh token is held
\* causes exactly one refresh exchange; when the exchange succeeds the
\* request is sent exactly once more, carrying the new access token, and the
\* caller's result is the retried call's result; otherwise it is not resent.
C4_OneRefreshOneRetry ==
  \A i \in Slots :
    ops[i].rt401 =>
      /\ ops[i].refreshes = 1
      /\ ops[i].refreshed = "ok" =>
           /\ ops[i].sends = 2
           /\ ops[i].header = Bearer(ops[i].issued)
      /\ ops[i].refreshed # "ok" => ops[i].sends = 1
      /\ ( /\ ops[i].op = "request"
           /\ ops[i].pc = "done"
           /\ ops[i].refreshed = "ok" )
         => (ops[i].out = "resolved" <=> ops[i].status = OK)

C4_Witness ==
  \E i \in Slots :
    /\ ops[i].rt401
    /\ ops[i].op = "request"
    /\ ops[i].pc = "done"
    /\ ops[i].refreshed = "ok"
    /\ ops[i].sends = 2
    /\ ops[i].refreshes = 1
    /\ ops[i].out = "resolved"

\* C5: a logical request is sent at most twice and refreshed at most once;
\* after the retry has been answered (also with 401) the request is settled,
\* never refreshed again.
C5_AtMostOneRetry ==
  \A i \in Slots :
    /\ ops[i].sends <= 2
    /\ ops[i].refreshes <= 1
    /\ ops[i].sends = 2 => ops[i].refreshes = 1 /\ ops[i].pc \in {"wait", "done"}
    /\ ( /\ ops[i].sends = 2
         /\ ops[i].pc = "done"
         /\ ops[i].status = Unauthorized
         /\ ops[i].op # "initAuth" )
       => ops[i].out = "rejected"

C5_Witness ==
  \E i \in Slots :
    /\ ops[i].sends = 2
    /\ ops[i].refreshes = 1
    /\ ops[i].pc = "done"
    /\ ops[i].status = Unauthorized
    /\ ops[i].out = "rejected"

\* C6: when the interceptor's refresh exchange fails, the step leaves both
\* tokens cleared in memory and in the durable slot, the location set to the
\* login entry point, and the caller holding the original 401.
C6_RefreshFailureTearsDown ==
  [][\A i \in Slots :
       RefreshFails(i) =>
         /\ accessToken' = Null
         /\ refreshToken' = Null
         /\ storage' = Null
         /\ location' = LoginEntry
         /\ ops'[i].pc = "done"
         /\ ops'[i].status = Unauthorized
         /\ ops[i].op # "initAuth" => ops'[i].out = "rejected"]_vars

C6_Witness ==
  \E i \in Slots :
    /\ ops[i].op = "request"
    /\ ops[i].refreshed = "fail"
    /\ ops[i].pc = "done"
    /\ ops[i].status = Unauthorized
    /\ ops[i].out = "rejected"
    /\ location = LoginEntry
    /\ accessToken = Null /\ refreshToken = Null /\ storage = Null

\* C7: when the refresh exchange succeeds, the new access token is stored,
\* the original request is re-issued with it, and the caller, still waiting,
\* gets the retried call's result: a successful retry resolves the call.
C7_TransparentRetry ==
  [][\A i \in Slots :
       /\ RefreshSucceeds(i) =>
            /\ accessToken' = ops'[i].issued
            /\ ops'[i].header = Bearer(ops'[i].issued)
            /\ ops'[i].pc = "wait"
            /\ ops'[i].out = "pending"
            /\ ops'[i].sends = ops[i].sends + 1
       /\ ( /\ ops[i].pc = "wait"
            /\ ops[i].refreshed = "ok"
            /\ ops'[i].pc = "done"
            /\ ops'[i].status = OK )
          => ops'[i].out = "resolved"]_vars

C7_Witness ==
  \E i \in Slots :
    /\ ops[i].op = "request"
    /\ ops[i].pc = "done"
    /\ ops[i].rt401
    /\ ops[i].refreshed = "ok"
    /\ ops[i].held = ops[i].issued
    /\ ops[i].status = OK
    /\ ops[i].out = "resolved"
    /\ accessToken = ops[i].issued

\* C8: every request on the wire carries the access token that was held when
\* it was sent, and carries no credential when none was held.
C8_BearerIsHeldToken ==
  \A i \in Slots :
    ops[i].sends > 0 =>
      ops[i].header = (IF ops[i].held # Null THEN Bearer(ops[i].held)
                                            ELSE NoHeader)

C8_Witness ==
  /\ \E i \in Slots :
       /\ ops[i].pc = "wait"
       /\ ops[i].sends = 2
       /\ ops[i].held # Null
       /\ ops[i].header = Bearer(ops[i].held)
  /\ \E j \in Slots :
       /\ ops[j].pc = "wait"
       /\ ops[j].sends = 1
       /\ ops[j].held = Null
       /\ ops[j].header = NoHeader

\* C9: a successful refresh exchange (interceptor or session restore) leaves
\* the in-memory refresh token and the durable slot as they were.
C9_RefreshKeepsRefreshToken ==
  [][( \/ \E i \in Slots : RefreshSucceeds(i)
       \/ RestoreRefreshSucceeds )
     => refreshToken' = refreshToken /\ storage' = storage]_vars

\* C10: a 401 answered while no refresh token is held settles the request
\* with that 401: no refresh exchange, no retry, no redirect, and the token
\* store untouched by the pipeline (logout and the session restore clear the
\* tokens themselves when their call fails).
C10_No401HandlingWithoutRefreshToken ==
  [][\A i \in Slots :
       Gets401WithoutRefreshToken(i) =>
         /\ ops'[i].pc = "done"
         /\ ops'[i].refreshes = ops[i].refreshes
         /\ ops'[i].sends = ops[i].sends
         /\ location' = location
         /\ ops[i].op \notin {"logout", "initAuth"} =>
              /\ ops'[i].out = "rejected"
              /\ accessToken' = accessToken
              /\ refreshToken' = refreshToken
              /\ storage' = storage]_vars

C10_Witness ==
  \E i \in Slots :
    /\ ops[i].op = "request"
    /\ ops[i].pc = "done"
    /\ ops[i].status = Unauthorized
    /\ ops[i].out = "rejected"
    /\ ops[i].sends = 1
    /\ ops[i].refreshes = 0
    /\ refreshToken = Null
    /\ location # LoginEntry
\* ======================================================= claims C11 .. C20
Tokens == <<accessToken, refreshToken, storage>>

\* slot i's request is answered with a failure other than 401 in this step
GetsOtherFailure(i) ==
  /\ ops[i].pc = "wait"
  /\ ops'[i] # ops[i]
  /\ ops'[i].op = ops[i].op
  /\ ops'[i].status \in OtherFailures

\* C11: a failure other than 401 settles the request with that failure: no
\* refresh exchange, no retry, no redirect, and the token store untouched by
\* the pipeline (logout and the session restore clear the tokens themselves
\* when their call fails).
C11_OtherFailuresPassThrough ==
  [][\A i \in Slots :
       GetsOtherFailure(i) =>
         /\ ops'[i].pc = "done"
         /\ ops'[i].refreshes = ops[i].refreshes
         /\ ops'[i].sends = ops[i].sends
         /\ ops'[i].retry = ops[i].retry
         /\ location' = location
         /\ unloading' = unloading
         /\ ops[i].op \notin {"logout", "initAuth"} =>
              /\ ops'[i].out = "rejected"
              /\ Tokens' = Tokens]_vars

C11_Witness ==
  \E i \in Slots :
    /\ ops[i].op = "request"
    /\ ops[i].pc = "done"
    /\ ops[i].status \in OtherFailures
    /\ ops[i].out = "rejected"
    /\ ops[i].sends = 1
    /\ ops[i].refreshes = 0
    /\ accessToken # Null /\ refreshToken # Null /\ storage # Null
    /\ ~unloading

\* the mount effect runs in this step
BootRuns == ops[BootSlot].pc = "idle" /\ ops'[BootSlot].op = "initAuth"

\* C12: with no stored refresh token, the session restore ends in the same
\* step, without a network call, with user null and the loading flag off.
C12_NoTokenNoNetwork ==
  [][(BootRuns /\ storage = Null) =>
       /\ ops'[BootSlot].pc = "done"
       /\ ops'[BootSlot].sends = 0
       /\ ops'[BootSlot].refreshes = 0
       /\ user' = Null
       /\ isLoading' = FALSE]_vars

C12_Witness ==
  /\ ops[BootSlot].op = "initAuth"
  /\ ops[BootSlot].pc = "done"
  /\ ops[BootSlot].storedRefresh = Null
  /\ ops[BootSlot].sends = 0
  /\ ops[BootSlot].status = NoStatus
  /\ storage = Null
  /\ user = Null
  /\ ~isLoading

\* the restore's profile fetch is answered with 200 in this step
BootRestored ==
  /\ ops[BootSlot].op = "initAuth"
  /\ ops[BootSlot].stage = "profile"
  /\ ops[BootSlot].pc = "wait"
  /\ ops'[BootSlot].pc = "done"
  /\ ops'[BootSlot].status = OK

\* no other operation has been started since the page was loaded
RestoreAlone == \A i \in UserSlots : ops[i].pc = "idle"

\* C13: when the stored refresh token is accepted and the profile fetch
\* succeeds, the restore ends Authenticated with the fetched profile; run on
\* its own, it leaves the newly obtained access token held and the stored
\* refresh token in memory and in the durable slot.
C13_RestoreAuthenticates ==
  [][BootRestored =>
       /\ user' = ops'[BootSlot].data.user
       /\ user' \in Users
       /\ isLoading' = FALSE
       /\ RestoreAlone =>
            /\ accessToken' = (IF ops[BootSlot].refreshed = "ok"
                                 THEN ops[BootSlot].issued
                                 ELSE ops'[BootSlot].data.access)
            /\ accessToken' \in AccessTokens
            /\ refreshToken' = ops[BootSlot].storedRefresh
            /\ storage' = ops[BootSlot].storedRefresh
            /\ storage' \in RefreshTokens]_vars

C13_Witness ==
  /\ ops[BootSlot].op = "initAuth"
  /\ ops[BootSlot].stage = "profile"
  /\ ops[BootSlot].pc = "done"
  /\ ops[BootSlot].status = OK
  /\ \A i \in UserSlots : ops[i].pc = "idle"
  /\ user = ops[BootSlot].data.user
  /\ user \in Users
  /\ accessToken = ops[BootSlot].data.access
  /\ storage = ops[BootSlot].storedRefresh
  /\ ~isLoading

\* the restore ends on a failed call in this step
BootFails ==
  /\ ops[BootSlot].op = "initAuth"
  /\ ops[BootSlot].pc \in {"wait", "refreshing"}
  /\ ops'[BootSlot].pc = "done"
  /\ ops'[BootSlot].status # OK

\* C14: when the restore's refresh exchange or its profile fetch fails, the
\* restore ends Anonymous with both tokens cleared in memory and the durable
\* refresh token removed.
C14_RestoreFailureClears ==
  [][BootFails =>
       /\ user' = Null
       /\ isLoading' = FALSE
       /\ accessToken' = Null
       /\ refreshToken' = Null
       /\ storage' = Null]_vars

C14_Witness ==
  /\ ops[BootSlot].op = "initAuth"
  /\ ops[BootSlot].stage = "profile"
  /\ ops[BootSlot].pc = "done"
  /\ ops[BootSlot].status \in OtherFailures
  /\ ops[BootSlot].storedRefresh # Null
  /\ user = Null /\ ~isLoading
  /\ accessToken = Null /\ refreshToken = Null /\ storage = Null

\* C15: while the loading flag is on the guard renders the waiting state
\* (no redirect, no protected content); once it is off the guard renders
\* the protected content exactly when isAuthenticated, and otherwise
\* navigates to the login entry point carrying the requested location.
C15_GuardWaitsForRestore ==
  LET r == ProtectedRoute(isLoading, isAuthenticated, location)
  IN /\ isLoading => r.kind = "spinner"
     /\ ~isLoading =>
          /\ r.kind = "children" <=> isAuthenticated
          /\ ~isAuthenticated => r = Navigate(LoginEntry, location)
          /\ r.kind # "spinner"

C15_Witness ==
  /\ Protected(location)
  /\ isLoading
  /\ user = Null
  /\ ops[BootSlot].pc = "wait"
  /\ ProtectedRoute(isLoading, isAuthenticated, location).kind = "spinner"

\* a login() or register() call resolves in this step
LoginSucceeds(i) ==
  /\ ops[i].op \in {"login", "register"}
  /\ ops[i].pc = "wait"
  /\ ops'[i].pc = "done"
  /\ ops'[i].out = "resolved"

\* C16: when login() or register() resolves, the returned access and refresh
\* tokens are the held ones (the refresh token also in the durable slot) and
\* the returned profile is the held profile, so isAuthenticated is true.
C16_LoginStoresSession ==
  [][\A i \in UserSlots :
       LoginSucceeds(i) =>
         /\ ops'[i].data.access \in AccessTokens
         /\ ops'[i].data.refresh \in RefreshTokens
         /\ accessToken' = ops'[i].data.access
         /\ refreshToken' = ops'[i].data.refresh
         /\ storage' = ops'[i].data.refresh
         /\ user' = ops'[i].data.user
         /\ isAuthenticated']_vars

C16_Witness ==
  \E i \in UserSlots :
    /\ ops[i].op = "register"
    /\ ops[i].pc = "done"
    /\ ops[i].out = "resolved"
    /\ accessToken = ops[i].data.access
    /\ storage = ops[i].data.refresh
    /\ refreshToken = storage
    /\ user = ops[i].data.user
    /\ isAuthenticated

\* a login() or register() call is rejected in this step
LoginRejected(i) ==
  /\ ops[i].op \in {"login", "register"}
  /\ ops[i].pc \in {"wait", "refreshing"}
  /\ ops'[i].pc = "done"
  /\ ops'[i].out = "rejected"

\* C17: a rejected login() or register() leaves the session as it was:
\* tokens, durable slot, user profile and location are unchanged, also when
\* a refresh token is held.
C17_RejectedLoginKeepsSession ==
  [][\A i \in UserSlots :
       LoginRejected(i) =>
         /\ Tokens' = Tokens
         /\ user' = user
         /\ location' = location
         /\ unloading' = unloading]_vars

\* a refreshUser() call is rejected in this step
RefreshUserRejected(i) ==
  /\ ops[i].op = "refreshUser"
  /\ ops[i].pc \in {"wait", "refreshing"}
  /\ ops'[i].pc = "done"
  /\ ops'[i].out = "rejected"

Quiescent ==
  /\ ~unloading
  /\ ops[BootSlot].pc = "done"
  /\ \A i \in UserSlots : Free(i)

\* C19: whenever nothing is in flight, a user profile is held exactly when
\* the token store holds a refresh token.
C19_SessionMatchesTokenStore ==
  Quiescent => (isAuthenticated <=> refreshToken # Null)

\* C20: the retry marker belongs to the request: a request answered 401
\* while a refresh token is held gets its own refresh exchange and its own
\* single retry, whatever other requests have been retried.
C20_RetryMarkerPerRequest ==
  \A i \in Slots : \A j \in Slots \ {i} :
    (ops[i].rt401 /\ ops[j].retry) =>
      /\ ops[i].retry
      /\ ops[i].refreshes = 1
      /\ ops[i].refreshed = "ok" => ops[i].sends = 2

C20_Witness ==
  \E i \in Slots : \E j \in Slots \ {i} :
    /\ ops[i].pc = "refreshing" /\ ops[i].rt401 /\ ops[i].refreshes = 1
    /\ ops[j].pc = "refreshing" /\ ops[j].rt401 /\ ops[j].refreshes = 1
\* ======================================================= claims C21 .. C30
\* the document is loaded again in this step
Reloaded == ops' = [i \in Slots |-> IdleOp] /\ isLoading' /\ ~unloading'

\* the session restore has settled: restored, absent or failed
RestoreSettled == ops[BootSlot].pc = "done"

\* C21: the loading flag is on from mount exactly until the session restore
\* has settled (restored, absent or failed); within one page load it never
\* comes on again; and when every network call eventually returns, either
\* the page keeps being reloaded or the loading flag ends up off for good.
C21_LoadingEndsOnce ==
  /\ [](isLoading <=> ~RestoreSettled)
  /\ [][(~isLoading /\ isLoading') => Reloaded]_vars
  /\ ([]<><<Reload>>_vars \/ <>[](~isLoading))

C21_Witness ==
  /\ ~isLoading
  /\ RestoreSettled
  /\ ops[BootSlot].storedRefresh # Null
  /\ ops[BootSlot].stage = "refresh"
  /\ ops[BootSlot].status = Unauthorized
  /\ ops[BootSlot].refreshed = "fail"
  /\ user = Null

\* clearTokens() runs in this step: the restore ends on a failure, a remote
\* logout call ends, or the interceptor's refresh exchange fails
ClearTokensRuns ==
  \/ BootFails
  \/ \E i \in Slots : RefreshFails(i)
  \/ \E i \in UserSlots :
       /\ ops[i].op = "logout"
       /\ ops[i].pc \in {"wait", "refreshing"}
       /\ LogoutFinishes(i)

\* C22: whatever the token store held, a step that runs clearTokens() leaves
\* the access token null, the in-memory refresh token null and the durable
\* slot absent, and running clearTokens() again in the state it left gives
\* that same state.
C22_ClearTokensIdempotent ==
  [][ClearTokensRuns =>
       /\ accessToken' = Null
       /\ refreshToken' = Null
       /\ storage' = Null
       /\ clearTokens' = CurStore']_vars

C22_Witness ==
  \E i \in UserSlots :
    /\ ops[i].op = "logout"
    /\ ops[i].pc = "done"
    /\ ops[i].status \in OtherFailures
    /\ ops[i].storedRefresh # Null
    /\ ops[i].held # Null
    /\ Tokens = <<Null, Null, Null>>
    /\ clearTokens = CurStore

InFlight(i) == ops[i].pc \in {"wait", "refreshing"}

\* C24: a logical request makes at most three network calls (the request,
\* one refresh exchange, one retry), and when every network call eventually
\* returns, no call waits for the network forever: whenever one is waiting
\* it is later settled to its caller (or dropped with the page), also when
\* the refresh exchange or the retried request is answered 401.
C24_RequestsSettle ==
  /\ [](\A i \in Slots : ops[i].sends + ops[i].refreshes <= 3)
  /\ \A i \in Slots : []<>(~InFlight(i))

C24_Witness ==
  \E i \in UserSlots :
    /\ ops[i].op = "refreshUser"
    /\ ops[i].retry
    /\ ops[i].sends = 2
    /\ ops[i].refreshes = 1
    /\ ops[i].refreshed = "ok"
    /\ ops[i].status = Unauthorized
    /\ ops[i].pc = "done"
    /\ ops[i].out = "rejected"

\* mutation m settles in this step
MutationSucceeds(m) ==
  mutations[m].pc = "pending" /\ mutations'[m].pc = "success"

MutationFails(m) ==
  mutations[m].pc = "pending" /\ mutations'[m].pc = "error"

AllInvalid(keys) == \A k \in keys : invalidated'[k]

SameOutside(keys) ==
  \A k \in QueryKeys \ keys : invalidated'[k] = invalidated[k]

\* C25: a successful cart mutation (add, update, remove, clear) leaves the
\* cart detail and cart summary queries invalidated and no other query
\* changed; a successful order creation leaves the order queries and the
\* cart queries invalidated; a failed mutation changes no query.
C25_MutationsInvalidate ==
  [][\A m \in MutationSlots :
       /\ (MutationSucceeds(m) /\ mutations[m].kind \in CartMutations) =>
            AllInvalid(CartQueries) /\ SameOutside(CartQueries)
       /\ (MutationSucceeds(m) /\ mutations[m].kind = "createOrder") =>
            /\ AllInvalid(CartQueries \cup OrderQueries)
            /\ SameOutside(CartQueries \cup OrderQueries)
       /\ MutationFails(m) => invalidated' = invalidated]_vars

C25_Witness ==
  \E m \in MutationSlots : \E n \in MutationSlots :
    /\ mutations[m] = [kind |-> "createOrder", pc |-> "success"]
    /\ mutations[n] = [kind |-> "clearCart", pc |-> "error"]
    /\ \A k \in CartQueries \cup OrderQueries : invalidated[k]
    /\ ~invalidated[productKeysLists]

\* C26: in every reachable state a held access token comes with a refresh
\* token held in memory and in the durable slot.
C26_AccessTokenNeedsRefreshToken ==
  accessToken # Null => (refreshToken # Null /\ storage # Null)

\* login() of slot i resolved after the session restore had read the
\* durable slot, and the restore is still waiting for the network
LoginDuringRestore(i) ==
  /\ ops[i].op = "login"
  /\ ops[i].pc = "done"
  /\ ops[i].out = "resolved"
  /\ ops[BootSlot].op = "initAuth"
  /\ InFlight(BootSlot)
  /\ ops[BootSlot].storedRefresh # ops[i].data.refresh

\* C27: when login() has succeeded while the session restore was in flight,
\* no later turn of the restore takes away what login() established: the
\* refresh token returned by login is still held in memory and in the
\* durable slot, an access token is held, and the user is login's user.
C27_RestoreKeepsLogin ==
  [][\A i \in UserSlots :
       (LoginDuringRestore(i) /\ ops'[BootSlot] # ops[BootSlot]
          /\ ops'[i] = ops[i]) =>
         /\ refreshToken' = ops[i].data.refresh
         /\ storage' = ops[i].data.refresh
         /\ accessToken' # Null
         /\ user' = ops[i].data.user]_vars

\* C28: the session restore's refresh call is the only refresh exchange it
\* causes: it is sent once and no interceptor exchange follows it.
C28_RestoreRefreshesOnce ==
  (ops[BootSlot].op = "initAuth" /\ ops[BootSlot].stage = "refresh") =>
    ops[BootSlot].sends + ops[BootSlot].refreshes <= 1

\* C29: no turn of the session restore changes the location or replaces
\* the document.
C29_RestoreNeverRedirects ==
  [][(ops'[BootSlot] # ops[BootSlot] /\ ops'[BootSlot].op = "initAuth") =>
       location' = location /\ unloading' = unloading]_vars

\* C30: whenever a refresh token is held in memory, the durable slot holds
\* the same value.
C30_MemoryMatchesStorage ==
  refreshToken # Null => refreshToken = storage

C30_Witness ==
  \E i \in UserSlots :
    /\ ops[i].op = "request"
    /\ ops[i].refreshed = "ok"
    /\ ops[BootSlot].op = "initAuth"
    /\ ops[BootSlot].stage = "profile"
    /\ ops[BootSlot].storedRefresh = refreshToken
    /\ refreshToken \in RefreshTokens
    /\ refreshToken = storage
    /\ accessToken = ops[i].issued
====
